---- MODULE Spec2Model ----
(***************************************************************************)
(* Model of llmagent/language_models/base.py: the LanguageModel base class *)
(* (create, get_verbatim_extracts, get_summary_answer) and the             *)
(* StreamingIfAllowed context manager.                                     *)
(*                                                                         *)
(* Text is modelled as a sequence of one-character strings, so that        *)
(* str.strip and str.split are computed character by character.            *)
(***************************************************************************)
EXTENDS Integers, Sequences, FiniteSets, TLC

\* ------------------------------------------------------------------------
\* Bounds of the model
\* ------------------------------------------------------------------------
MaxSegs == 4
MaxPassages == 3
MaxSummaryPassages == 2

\* ------------------------------------------------------------------------
\* Text helpers (Python str semantics)
\* ------------------------------------------------------------------------
None == "None"

\* the characters str.strip() removes, as far as the model's alphabet goes
Whitespace == {" ", "\n"}

RECURSIVE lstrip(_)
lstrip(s) ==
    IF s = <<>> THEN <<>>
    ELSE IF Head(s) \in Whitespace THEN lstrip(Tail(s)) ELSE s

RECURSIVE rstrip(_)
rstrip(s) ==
    IF s = <<>> THEN <<>>
    ELSE IF s[Len(s)] \in Whitespace THEN rstrip(SubSeq(s, 1, Len(s) - 1)) ELSE s

\* str.strip()
strip(s) == rstrip(lstrip(s))

\* str.find, 1-based; 0 when sub does not occur in s
find(s, sub) ==
    LET hits == {i \in 1..(Len(s) - Len(sub) + 1) : SubSeq(s, i, i + Len(sub) - 1) = sub}
    IN  IF hits = {} THEN 0 ELSE CHOOSE i \in hits : \A j \in hits : i <= j

\* str.rfind, 1-based; 0 when sub does not occur in s
rfind(s, sub) ==
    LET hits == {i \in 1..(Len(s) - Len(sub) + 1) : SubSeq(s, i, i + Len(sub) - 1) = sub}
    IN  IF hits = {} THEN 0 ELSE CHOOSE i \in hits : \A j \in hits : i >= j

\* variant: str.rsplit(sep, maxsplit=1), splitting at the last occurrence
rsplit1(s, sep) ==
    LET i == rfind(s, sep)
    IN  IF i = 0 THEN <<s>>
        ELSE <<SubSeq(s, 1, i - 1), SubSeq(s, i + Len(sep), Len(s))>>

\* str.split(sep, maxsplit=1)
split1(s, sep) ==
    LET i == find(s, sep)
    IN  IF i = 0 THEN <<s>>
        ELSE <<SubSeq(s, 1, i - 1), SubSeq(s, i + Len(sep), Len(s))>>

RECURSIVE Flatten(_)
Flatten(ss) == IF ss = <<>> THEN <<>> ELSE Head(ss) \o Flatten(Tail(ss))

\* the literal "SOURCE:" of get_summary_answer
MARKER == <<"S", "O", "U", "R", "C", "E", ":">>

\* the literal "SOURCE: " that prefixes the source metadata
SOURCE_PREFIX == <<"S", "O", "U", "R", "C", "E", ":", " ">>

\* max_tokens passed to generate by the derived operations
GEN_MAX_TOKENS == 1024

\* ------------------------------------------------------------------------
\* State
\* ------------------------------------------------------------------------
VARIABLES
    s_passages,   \* get_summary_answer: the passages argument
    s_pc,         \* get_summary_answer: "idle", "returned", "raised"
    s_calls,      \* get_summary_answer: log of the generate calls issued
    s_response,   \* get_summary_answer: the LLMResponse of generate, or None
    s_doc,        \* get_summary_answer: the Document returned, or None
    s_error,      \* get_summary_answer: the kind of exception raised, or None
    llm_stream,       \* the model instance's streaming flag
    settings_stream,  \* settings.stream, the process-wide flag
    scopes,           \* the StreamingIfAllowed objects: stream, old_stream, pc
    trace,            \* history of the __enter__ and __exit__ calls
    x_passages,   \* get_verbatim_extracts: the passages argument
    x_pc,         \* get_verbatim_extracts: "idle", "awaiting" (main coroutine suspended),
                  \* "stopping" (main coroutine ended, loop still running), "closing"
                  \* (loop told to stop), "cancelling" (pending tasks asked to
                  \* cancel, loop run again), "returned", "raised"
    tasks,        \* the tasks gather created, one per passage
    ready,        \* the event loop's queue of callbacks ready to run
    todo,         \* how many callbacks at the head of ready are left of the batch
                  \* of the loop's iteration (0 when the batch is over)
    outer,        \* the future gather returned
    x_docs,       \* get_verbatim_extracts: the Documents returned
    x_error,      \* get_verbatim_extracts: the exception raised, or None
    c_config,     \* LanguageModel.create: the LLMConfig argument
    c_pc,         \* LanguageModel.create: "idle", "returned", "raised"
    c_instance    \* LanguageModel.create: the instance returned, or None

summary_vars == <<s_passages, s_pc, s_calls, s_response, s_doc, s_error>>

stream_vars == <<llm_stream, settings_stream, scopes, trace>>

extract_vars == <<x_passages, x_pc, tasks, ready, todo, outer, x_docs, x_error>>

create_vars == <<c_config, c_pc, c_instance>>

vars == <<summary_vars, stream_vars, extract_vars, create_vars>>

other_than_summary == <<stream_vars, extract_vars, create_vars>>
other_than_stream  == <<summary_vars, extract_vars, create_vars>>
other_than_extract == <<summary_vars, stream_vars, create_vars>>
other_than_create  == <<summary_vars, stream_vars, extract_vars>>

\* ------------------------------------------------------------------------
\* get_summary_answer
\* ------------------------------------------------------------------------
Question == <<"q", "?">>

\* pieces the model's replies are assembled from
Segments ==
    { <<" ">>, <<"\n">>, <<"a">>, MARKER, <<"S", "O", "U", "R", "C", "E">>, <<":">> }

\* the reply texts generate may produce
Responses ==
    { Flatten(ss) : ss \in UNION { [1..n -> Segments] : n \in 0..MaxSegs } }

\* metadata mappings of the passages; the last one has no "source" key
SummaryMetadatas == { [source |-> <<"s", "1">>], [source |-> <<"s", "2">>, id |-> 7], [id |-> 8] }

SummaryPassages ==
    { [content |-> <<"p">>, metadata |-> m] : m \in SummaryMetadatas }

HasSource(p) == "source" \in DOMAIN p.metadata

\* stringify_passages: one (Extract, Source) rendering per passage
stringify_passages(passages) ==
    [i \in 1..Len(passages) |->
        [Extract |-> passages[i].content, Source |-> passages[i].metadata["source"]]]

\* SUMMARY_ANSWER_PROMPT_GPT4.format(question=f"Question:{question}", extracts=...)
SummaryPrompt(question, passages) ==
    [question |-> <<"Q", "u", "e", "s", "t", "i", "o", "n", ":">> \o question,
     extracts |-> stringify_passages(passages)]

\* variant: the prefix is added only when a citation was found
SummaryDocumentBarePrefix(llm_response) ==
    LET final_answer == strip(llm_response.message)
        parts   == split1(final_answer, MARKER)
        content == IF Len(parts) > 1 THEN strip(parts[1]) ELSE final_answer
        sources == IF Len(parts) > 1 THEN SOURCE_PREFIX \o strip(parts[2]) ELSE <<>>
    IN  [content  |-> content,
         metadata |-> [source |-> sources,
                       cached |-> llm_response.cached]]

\* the Document built from the LLMResponse
SummaryDocument(llm_response) ==
    LET final_answer == strip(llm_response.message)
        parts   == split1(final_answer, MARKER)
        content == IF Len(parts) > 1 THEN strip(parts[1]) ELSE final_answer
        sources == IF Len(parts) > 1 THEN strip(parts[2]) ELSE <<>>
    IN  [content  |-> content,
         metadata |-> [source |-> SOURCE_PREFIX \o sources,
                       cached |-> llm_response.cached]]

\* variant: the model is called before the passages are rendered
SummaryKeyErrorAfterGenerate ==
    /\ s_pc = "idle"
    /\ \E i \in 1..Len(s_passages) : ~HasSource(s_passages[i])
    /\ s_calls' = Append(s_calls, [prompt |-> None, max_tokens |-> GEN_MAX_TOKENS])
    /\ s_pc' = "raised"
    /\ s_error' = "KeyError"
    /\ UNCHANGED <<s_passages, s_response, s_doc>>
    /\ UNCHANGED other_than_summary

\* a passage without "source": stringify_passages raises KeyError
SummaryKeyError ==
    /\ s_pc = "idle"
    /\ \E i \in 1..Len(s_passages) : ~HasSource(s_passages[i])
    /\ s_pc' = "raised"
    /\ s_error' = "KeyError"
    /\ UNCHANGED <<s_passages, s_calls, s_response, s_doc>>
    /\ UNCHANGED other_than_summary

\* generate raises: the provider error propagates
SummaryGenerateRaises ==
    /\ s_pc = "idle"
    /\ \A i \in 1..Len(s_passages) : HasSource(s_passages[i])
    /\ s_calls' = Append(s_calls,
            [prompt |-> SummaryPrompt(Question, s_passages), max_tokens |-> GEN_MAX_TOKENS])
    /\ s_pc' = "raised"
    /\ s_error' = "ProviderError"
    /\ UNCHANGED <<s_passages, s_response, s_doc>>
    /\ UNCHANGED other_than_summary

\* generate answers: the answer is split into body and citation
SummaryReturns ==
    /\ s_pc = "idle"
    /\ \A i \in 1..Len(s_passages) : HasSource(s_passages[i])
    /\ \E msg \in Responses, cached \in BOOLEAN :
        LET llm_response == [message |-> msg, usage |-> Len(msg), cached |-> cached]
        IN  /\ s_response' = llm_response
            /\ s_doc' = SummaryDocument(llm_response)
    /\ s_calls' = Append(s_calls,
            [prompt |-> SummaryPrompt(Question, s_passages), max_tokens |-> GEN_MAX_TOKENS])
    /\ s_pc' = "returned"
    /\ UNCHANGED <<s_passages, s_error>>
    /\ UNCHANGED other_than_summary


\* ------------------------------------------------------------------------
\* StreamingIfAllowed
\* ------------------------------------------------------------------------
Scopes == {1, 2}

\* LanguageModel.set_stream: sets the flag and returns its previous value
set_stream(flag, stream) == [flag |-> stream, ret |-> flag]

\* variant: the desired value alone decides
effective_desired_only(allowed, desired) == desired

\* the argument __enter__ passes: settings.stream and self.stream
effective_stream(allowed, desired) == allowed /\ desired

\* settings.stream is changed by the program
SetSettingsStream ==
    /\ settings_stream' = ~settings_stream
    /\ UNCHANGED <<llm_stream, scopes, trace>>
    /\ UNCHANGED other_than_stream

\* StreamingIfAllowed.__enter__
StreamingIfAllowed_enter(s) ==
    /\ scopes[s].pc = "created"
    /\ LET r == set_stream(llm_stream, effective_stream(settings_stream, scopes[s].stream))
       IN  /\ llm_stream' = r.flag
           /\ scopes' = [scopes EXCEPT ![s].old_stream = r.ret, ![s].pc = "open"]
           /\ trace' = Append(trace, [scope |-> s, op |-> "enter", before |-> llm_stream,
                                      after |-> r.flag, allowed |-> settings_stream,
                                      exc |-> None])
    /\ UNCHANGED settings_stream
    /\ UNCHANGED other_than_stream

\* variant: the flag is restored only when the block ends normally
restore_on_success(s, exc_type) ==
    IF exc_type = None THEN set_stream(llm_stream, scopes[s].old_stream)
    ELSE [flag |-> llm_stream, ret |-> llm_stream]

\* variant: the exit switches streaming off instead of restoring it
restore_disables(s, exc_type) == set_stream(llm_stream, FALSE)

\* the set_stream call of __exit__
restore(s, exc_type) == set_stream(llm_stream, scopes[s].old_stream)

\* StreamingIfAllowed.__exit__, called when the block ends (exc_type = None)
\* or raises; it returns None, so the exception propagates
StreamingIfAllowed_exit(s, exc_type) ==
    /\ scopes[s].pc = "open"
    /\ LET r == restore(s, exc_type)
       IN  /\ llm_stream' = r.flag
           /\ scopes' = [scopes EXCEPT ![s].pc = "exited"]
           /\ trace' = Append(trace, [scope |-> s, op |-> "exit", before |-> llm_stream,
                                      after |-> r.flag, allowed |-> settings_stream,
                                      exc |-> exc_type])
    /\ UNCHANGED settings_stream
    /\ UNCHANGED other_than_stream


\* ------------------------------------------------------------------------
\* get_verbatim_extracts
\* ------------------------------------------------------------------------
Digits == <<"1", "2", "3", "4", "5", "6", "7", "8", "9">>

\* the i-th of a list of passages whose contents and metadata all differ
ExtractPassage(i) ==
    [content |-> <<"p", Digits[i]>>,
     metadata |-> IF i % 2 = 1
                  THEN [source |-> <<"s", Digits[i]>>]
                  ELSE [source |-> <<"s", Digits[i]>>, page |-> i]]

\* the passages arguments: lists of up to MaxPassages passages that all
\* differ, and a list holding the same passage twice
ExtractPassages ==
    { [i \in 1..n |-> ExtractPassage(i)] : n \in 0..MaxPassages }
        \cup { <<ExtractPassage(1), ExtractPassage(1)>> }

\* the reply texts agenerate may produce
ExtractResponses == { <<" ", "f", "\n">>, <<"g">> }

Min(a, b) == IF a <= b THEN a ELSE b

\* zip(a, b)
zip(a, b) == [i \in 1..Min(Len(a), Len(b)) |-> <<a[i], b[i]>>]

\* EXTRACTION_PROMPT_GPT4.format(question=..., content=...)
ExtractionPrompt(question, passage) ==
    [question |-> question, content |-> passage.content, max_tokens |-> GEN_MAX_TOKENS]

\* what an agenerate call may do: answer with a reply, or raise
Outcomes ==
    { [raises |-> FALSE, message |-> m] : m \in ExtractResponses }
        \cup { [raises |-> TRUE, message |-> <<>>] }

\* what a call that has not answered holds
NoOutcome == [raises |-> FALSE, message |-> <<>>]

\* a task gather has just created: "answered" tells that the agenerate call
\* has answered (outcome), "cancel_requested" that task.cancel() was called
NewTask ==
    [state |-> "created", prompt |-> None, raw |-> None, result |-> None,
     answered |-> FALSE, outcome |-> NoOutcome, cancel_requested |-> FALSE]

PendingOuter == [state |-> "pending", results |-> <<>>, exception |-> None, finished |-> <<>>]

\* the return statement of _get_verbatim_extracts
extract_documents(verbatim_extracts, passages) ==
    LET metadatas == [i \in 1..Len(passages) |-> passages[i].metadata]
        pairs == zip(verbatim_extracts, metadatas)
    IN  [i \in 1..Len(pairs) |-> [content |-> pairs[i][1], metadata |-> pairs[i][2]]]

\* the event loop runs its callbacks in iterations: the batch of an iteration
\* is what was queued when the iteration began, and what is queued during
\* the iteration runs in a later one. The callback at the head of the queue
\* runs when it is of the batch under way
Runs(kind) ==
    /\ ready # <<>>
    /\ Head(ready)[1] = kind
    /\ todo > 0

\* the loop begins an iteration: the callbacks queued by now are its batch.
\* Once told to stop, the loop begins no further iteration until asyncio.run
\* has it run again
RunOnce ==
    /\ x_pc \in {"awaiting", "stopping", "cancelling"}
    /\ todo = 0
    /\ ready # <<>>
    /\ todo' = Len(ready)
    /\ UNCHANGED <<x_passages, x_pc, tasks, ready, outer, x_docs, x_error>>
    /\ UNCHANGED other_than_extract

\* get_verbatim_extracts is called: asyncio.run starts _get_verbatim_extracts,
\* which runs up to "await asyncio.gather(...)"; gather wraps every coroutine
\* in a task and schedules its first step
get_verbatim_extracts ==
    /\ x_pc = "idle"
    /\ IF x_passages = <<>>
       THEN \* gather() of nothing is already done: the main coroutine ends
            \* without suspending
            /\ x_pc' = "stopping"
            /\ x_docs' = extract_documents(<<>>, x_passages)
            /\ outer' = [outer EXCEPT !.state = "result"]
            /\ ready' = <<<<"stop">>>>
            /\ UNCHANGED tasks
       ELSE /\ x_pc' = "awaiting"
            /\ tasks' = [i \in 1..Len(x_passages) |-> NewTask]
            /\ ready' = [i \in 1..Len(x_passages) |-> <<"step", i>>]
            /\ UNCHANGED <<x_docs, outer>>
    /\ todo' = 0
    /\ UNCHANGED <<x_passages, x_error>>
    /\ UNCHANGED other_than_extract

\* the task of passage i ends: with the stripped reply, or with an exception
task_done(i, outcome) ==
    /\ tasks' = [tasks EXCEPT ![i] =
            IF outcome.raises
            THEN [@ EXCEPT !.state = "failed", !.answered = TRUE, !.outcome = outcome]
            ELSE [@ EXCEPT !.state = "ok", !.answered = TRUE, !.outcome = outcome,
                           !.raw = outcome.message, !.result = strip(outcome.message)]]

\* first step of get_verbatim_extract_async: the prompt is built and
\* agenerate is awaited; the call is in flight
TaskStepSuspends ==
    /\ x_pc = "awaiting"
    /\ Runs("step")
    /\ LET i == Head(ready)[2]
       IN  tasks' = [tasks EXCEPT ![i].state = "waiting",
                                  ![i].prompt = ExtractionPrompt(Question, x_passages[i])]
    /\ ready' = Tail(ready)
    /\ todo' = todo - 1
    /\ UNCHANGED <<x_passages, x_pc, outer, x_docs, x_error>>
    /\ UNCHANGED other_than_extract

\* first step of get_verbatim_extract_async when agenerate answers or raises
\* without suspending: the task ends and its done callback is scheduled
TaskStepFinishes ==
    /\ x_pc = "awaiting"
    /\ Runs("step")
    /\ LET i == Head(ready)[2]
       IN  /\ \E outcome \in Outcomes :
                tasks' = [tasks EXCEPT ![i] =
                    LET t == [@ EXCEPT !.prompt = ExtractionPrompt(Question, x_passages[i]),
                                       !.answered = TRUE, !.outcome = outcome]
                    IN  IF outcome.raises
                        THEN [t EXCEPT !.state = "failed"]
                        ELSE [t EXCEPT !.state = "ok", !.raw = outcome.message,
                                       !.result = strip(outcome.message)]]
           /\ ready' = Append(Tail(ready), <<"cb", i>>)
    /\ todo' = todo - 1
    /\ UNCHANGED <<x_passages, x_pc, outer, x_docs, x_error>>
    /\ UNCHANGED other_than_extract

\* the call in flight for passage i answers or fails while the loop runs, at
\* any point of an iteration: the future the task awaits is done and the
\* wake-up of the task is scheduled, for a later iteration; the task has not
\* resumed yet
CallAnswers(i) ==
    /\ x_pc \in {"awaiting", "stopping", "closing"}
    /\ i \in 1..Len(tasks)
    /\ tasks[i].state = "waiting"
    /\ ~tasks[i].answered
    /\ \E outcome \in Outcomes :
        tasks' = [tasks EXCEPT ![i].answered = TRUE, ![i].outcome = outcome]
    /\ ready' = Append(ready, <<"wake", i>>)
    /\ UNCHANGED <<x_passages, x_pc, todo, outer, x_docs, x_error>>
    /\ UNCHANGED other_than_extract

\* the wake-up of a task runs: the task resumes at "await self.agenerate(...)"
\* with the answer of its call and ends, or, asked to cancel in the meantime,
\* with CancelledError and ends cancelled; its done callback is scheduled
TaskResumes ==
    /\ x_pc \in {"awaiting", "stopping", "closing", "cancelling"}
    /\ Runs("wake")
    /\ LET i == Head(ready)[2]
       IN  /\ IF tasks[i].cancel_requested
              THEN tasks' = [tasks EXCEPT ![i].state = "cancelled"]
              ELSE task_done(i, tasks[i].outcome)
           /\ ready' = Append(Tail(ready), <<"cb", i>>)
    /\ todo' = todo - 1
    /\ UNCHANGED <<x_passages, x_pc, outer, x_docs, x_error>>
    /\ UNCHANGED other_than_extract

\* variant: exceptions of the children are collected, not propagated
child_raised_ignored(task) == FALSE

\* gather's test "exc is not None" on a finished child
child_raised(task) == task.state = "failed"

\* variant: the results in the order the children finished
gather_results_as_completed(children, finished) ==
    [k \in 1..Len(finished) |-> children[finished[k]].result]

\* gather's result list: [fut.result() for fut in children]
gather_results(children, finished) ==
    [i \in 1..Len(children) |-> children[i].result]

\* gather's _done_callback for child i (return_exceptions=False)
DoneCallback ==
    /\ x_pc \in {"awaiting", "stopping", "closing", "cancelling"}
    /\ Runs("cb")
    /\ LET i == Head(ready)[2]
           finished == Append(outer.finished, i)
       IN  IF outer.state # "pending"
           THEN /\ outer' = [outer EXCEPT !.finished = finished]
                /\ ready' = Tail(ready)
           ELSE IF child_raised(tasks[i])
           THEN /\ outer' = [outer EXCEPT !.finished = finished, !.state = "exception",
                                          !.exception = <<"ProviderError", i>>]
                /\ ready' = Append(Tail(ready), <<"main">>)
           ELSE IF Len(finished) = Len(tasks)
           THEN /\ outer' = [outer EXCEPT !.finished = finished, !.state = "result",
                                          !.results = gather_results(tasks, finished)]
                /\ ready' = Append(Tail(ready), <<"main">>)
           ELSE /\ outer' = [outer EXCEPT !.finished = finished]
                /\ ready' = Tail(ready)
    /\ todo' = todo - 1
    /\ UNCHANGED <<x_passages, x_pc, tasks, x_docs, x_error>>
    /\ UNCHANGED other_than_extract

\* variant: the tasks still pending are left alone
cancel_none(children) == {}

\* asyncio.run's shutdown: the tasks not yet done, each of which is asked to
\* cancel (whether or not its call has answered)
cancel_all_tasks(children) ==
    { i \in 1..Len(children) : children[i].state \in {"created", "waiting"} }

\* the orders in which the tasks of the set S may be woken
Orders(S) ==
    { q \in [1..Cardinality(S) -> S] : \A a, b \in 1..Cardinality(S) : q[a] = q[b] => a = b }

\* the main coroutine resumes from "await asyncio.gather(...)" with the
\* results: the Documents are built and the coroutine ends; the callback
\* that stops the loop is scheduled
MainReturns ==
    /\ x_pc = "awaiting"
    /\ Runs("main")
    /\ outer.state = "result"
    /\ x_docs' = extract_documents(outer.results, x_passages)
    /\ x_pc' = "stopping"
    /\ ready' = Append(Tail(ready), <<"stop">>)
    /\ todo' = todo - 1
    /\ UNCHANGED <<x_passages, tasks, outer, x_error>>
    /\ UNCHANGED other_than_extract

\* the main coroutine resumes with the exception of a child and ends by
\* raising it; the callback that stops the loop is scheduled, and the loop
\* runs on until then
MainRaises ==
    /\ x_pc = "awaiting"
    /\ Runs("main")
    /\ outer.state = "exception"
    /\ x_error' = outer.exception
    /\ x_pc' = "stopping"
    /\ ready' = Append(Tail(ready), <<"stop">>)
    /\ todo' = todo - 1
    /\ UNCHANGED <<x_passages, tasks, outer, x_docs>>
    /\ UNCHANGED other_than_extract

\* the callback that stops the loop runs: the loop ends after the batch of
\* callbacks it is in
StopLoop ==
    /\ x_pc = "stopping"
    /\ Runs("stop")
    /\ x_pc' = "closing"
    /\ ready' = Tail(ready)
    /\ todo' = todo - 1
    /\ UNCHANGED <<x_passages, tasks, outer, x_docs, x_error>>
    /\ UNCHANGED other_than_extract

\* the batch of the stop callback is over and the loop has stopped:
\* asyncio.run asks every task still pending to cancel. A task whose call has
\* not answered has the future it awaits cancelled, which schedules its
\* wake-up (in the order of the set of tasks); a task whose call has answered
\* is marked, and the wake-up it already has in the queue will deliver the
\* CancelledError. The loop is run again
CancelAllTasks ==
    /\ x_pc = "closing"
    /\ todo = 0
    /\ LET to_cancel == cancel_all_tasks(tasks)
       IN  /\ tasks' = [i \in 1..Len(tasks) |->
                    IF i \in to_cancel
                    THEN [tasks[i] EXCEPT !.cancel_requested = TRUE]
                    ELSE tasks[i]]
           /\ \E q \in Orders({ i \in to_cancel : ~tasks[i].answered }) :
                ready' = ready \o [k \in 1..Len(q) |-> <<"wake", q[k]>>]
    /\ x_pc' = "cancelling"
    /\ todo' = 0
    /\ UNCHANGED <<x_passages, outer, x_docs, x_error>>
    /\ UNCHANGED other_than_extract

\* asyncio.run ends once the loop has run what was left: get_verbatim_extracts
\* returns the Documents or raises the exception of the main coroutine
RunEnds ==
    /\ x_pc = "cancelling"
    /\ ready = <<>>
    /\ x_pc' = IF outer.state = "exception" THEN "raised" ELSE "returned"
    /\ UNCHANGED <<x_passages, tasks, ready, todo, outer, x_docs, x_error>>
    /\ UNCHANGED other_than_extract

\* ------------------------------------------------------------------------
\* LanguageModel.create
\* ------------------------------------------------------------------------
\* values of config.type: the registered tag and unrecognized ones
ProviderTags == {"openai", "OpenAI", "azure", "anthropic", ""}

\* LLMConfig values
Configs ==
    [type : ProviderTags, max_tokens : {1, 1024, 4096},
     use_chat_for_completion : BOOLEAN, stream : BOOLEAN]

\* dict(openai=OpenAIGPT)
Registry == [openai |-> "OpenAIGPT"]

\* variant: dict.get(key), which gives None for a missing key
dict_get_no_default(d, key, default) == IF key \in DOMAIN d THEN d[key] ELSE None

\* dict.get(key, default)
dict_get(d, key, default) == IF key \in DOMAIN d THEN d[key] ELSE default

\* LanguageModel.create(config): the class is looked up by config.type and
\* called with the config (calling None raises TypeError)
create ==
    /\ c_pc = "idle"
    /\ LET cls == dict_get(Registry, c_config.type, "OpenAIGPT")
       IN  IF cls = None
           THEN c_pc' = "raised" /\ c_instance' = None
           ELSE c_pc' = "returned" /\ c_instance' = [cls |-> cls, config |-> c_config]
    /\ UNCHANGED c_config
    /\ UNCHANGED other_than_create

\* ------------------------------------------------------------------------
\* Specification
\* ------------------------------------------------------------------------
\* The program is set up for one of its operations with the arguments drawn
\* from the bounded sets; the state of the other operations stays unused
\* ("off").
\* get_summary_answer is about to be called on some passages
InitSummary ==
    /\ s_passages \in UNION { [1..n -> SummaryPassages] : n \in 0..MaxSummaryPassages }
    /\ s_pc = "idle"
    /\ s_calls = <<>>
    /\ s_response = None
    /\ s_doc = None
    /\ s_error = None
    /\ llm_stream = FALSE
    /\ settings_stream = FALSE
    /\ scopes = [s \in Scopes |-> [stream |-> FALSE, old_stream |-> None, pc |-> "off"]]
    /\ trace = <<>>
    /\ x_passages = <<>>
    /\ x_pc = "off"
    /\ tasks = <<>>
    /\ ready = <<>>
    /\ todo = 0
    /\ outer = PendingOuter
    /\ x_docs = None
    /\ x_error = None
    /\ c_config = None
    /\ c_pc = "off"
    /\ c_instance = None

\* StreamingIfAllowed.__init__: two scopes are constructed on one model instance
InitStream ==
    /\ llm_stream \in BOOLEAN
    /\ settings_stream \in BOOLEAN
    /\ scopes \in [Scopes -> { [stream |-> d, old_stream |-> None, pc |-> "created"] :
                                d \in BOOLEAN }]
    /\ trace = <<>>
    /\ s_passages = <<>>
    /\ s_pc = "off"
    /\ s_calls = <<>>
    /\ s_response = None
    /\ s_doc = None
    /\ s_error = None
    /\ x_passages = <<>>
    /\ x_pc = "off"
    /\ tasks = <<>>
    /\ ready = <<>>
    /\ todo = 0
    /\ outer = PendingOuter
    /\ x_docs = None
    /\ x_error = None
    /\ c_config = None
    /\ c_pc = "off"
    /\ c_instance = None

\* get_verbatim_extracts is about to be called on some passages
InitExtract ==
    /\ x_passages \in ExtractPassages
    /\ x_pc = "idle"
    /\ tasks = <<>>
    /\ ready = <<>>
    /\ todo = 0
    /\ outer = PendingOuter
    /\ x_docs = None
    /\ x_error = None
    /\ s_passages = <<>>
    /\ s_pc = "off"
    /\ s_calls = <<>>
    /\ s_response = None
    /\ s_doc = None
    /\ s_error = None
    /\ llm_stream = FALSE
    /\ settings_stream = FALSE
    /\ scopes = [s \in Scopes |-> [stream |-> FALSE, old_stream |-> None, pc |-> "off"]]
    /\ trace = <<>>
    /\ c_config = None
    /\ c_pc = "off"
    /\ c_instance = None

\* LanguageModel.create is about to be called on some LLMConfig
InitCreate ==
    /\ c_config \in Configs
    /\ c_pc = "idle"
    /\ c_instance = None
    /\ s_passages = <<>>
    /\ s_pc = "off"
    /\ s_calls = <<>>
    /\ s_response = None
    /\ s_doc = None
    /\ s_error = None
    /\ llm_stream = FALSE
    /\ settings_stream = FALSE
    /\ scopes = [s \in Scopes |-> [stream |-> FALSE, old_stream |-> None, pc |-> "off"]]
    /\ trace = <<>>
    /\ x_passages = <<>>
    /\ x_pc = "off"
    /\ tasks = <<>>
    /\ ready = <<>>
    /\ todo = 0
    /\ outer = PendingOuter
    /\ x_docs = None
    /\ x_error = None

Init ==
    \/ InitSummary
    \/ InitStream
    \/ InitExtract
    \/ InitCreate

Next ==
    \/ SummaryKeyError
    \/ SummaryGenerateRaises
    \/ SummaryReturns
    \/ \E s \in Scopes : StreamingIfAllowed_enter(s)
    \/ \E s \in Scopes, exc_type \in {None, "Exception"} : StreamingIfAllowed_exit(s, exc_type)
    \/ SetSettingsStream
    \/ get_verbatim_extracts
    \/ RunOnce
    \/ TaskStepSuspends
    \/ TaskStepFinishes
    \/ \E i \in 1..MaxPassages : CallAnswers(i)
    \/ TaskResumes
    \/ DoneCallback
    \/ MainReturns
    \/ MainRaises
    \/ StopLoop
    \/ CancelAllTasks
    \/ RunEnds
    \/ create

Spec == Init /\ [][Next]_vars

\* ------------------------------------------------------------------------
\* Properties of get_summary_answer
\* ------------------------------------------------------------------------
AllWhitespace(s) == \A i \in 1..Len(s) : s[i] \in Whitespace

Trimmed(x) == x = <<>> \/ (x[1] \notin Whitespace /\ x[Len(x)] \notin Whitespace)

\* x is s without its leading and trailing whitespace
IsTrimOf(x, s) ==
    /\ Trimmed(x)
    /\ \E i \in 0..Len(s) :
        /\ i + Len(x) <= Len(s)
        /\ SubSeq(s, i + 1, i + Len(x)) = x
        /\ AllWhitespace(SubSeq(s, 1, i))
        /\ AllWhitespace(SubSeq(s, i + Len(x) + 1, Len(s)))

MarkerAt(s, k) ==
    /\ k + Len(MARKER) - 1 <= Len(s)
    /\ \A i \in 1..Len(MARKER) : s[k + i - 1] = MARKER[i]

MarkerPositions(s) == { k \in 1..Len(s) : MarkerAt(s, k) }

\* C5: when the reply contains "SOURCE:", the content is the trimmed text
\* before the first occurrence of the marker and the source metadata is
\* "SOURCE: " followed by the trimmed text after that first occurrence.
C5_SplitAtFirstMarker ==
    (s_pc = "returned" /\ MarkerPositions(s_response.message) # {}) =>
        \E k \in MarkerPositions(s_response.message) :
            /\ \A j \in MarkerPositions(s_response.message) : k <= j
            /\ IsTrimOf(s_doc.content, SubSeq(s_response.message, 1, k - 1))
            /\ \E c \in {SubSeq(s_doc.metadata.source, Len(SOURCE_PREFIX) + 1,
                                  Len(s_doc.metadata.source))} :
                /\ s_doc.metadata.source = SOURCE_PREFIX \o c
                /\ IsTrimOf(c, SubSeq(s_response.message, k + Len(MARKER),
                                      Len(s_response.message)))

\* a reply with two markers and text before the first one has been parsed
C5_Witness ==
    /\ s_pc = "returned"
    /\ Cardinality(MarkerPositions(s_response.message)) = 2
    /\ s_doc.content = <<"a">>
    /\ MarkerPositions(s_doc.metadata.source) # {1}

\* C6: when the reply contains no "SOURCE:", the content is the whole
\* trimmed reply and the source metadata is exactly "SOURCE: ".
C6_NoMarker ==
    (s_pc = "returned" /\ MarkerPositions(s_response.message) = {}) =>
        /\ IsTrimOf(s_doc.content, s_response.message)
        /\ s_doc.metadata.source = SOURCE_PREFIX
        /\ s_doc.metadata.source # <<>>

\* a reply without marker, but with the near miss "SOURCE :", has been parsed
C6_Witness ==
    /\ s_pc = "returned"
    /\ s_response.message = <<" ", "S", "O", "U", "R", "C", "E", " ", ":">>
    /\ s_doc.content = <<"S", "O", "U", "R", "C", "E", " ", ":">>

\* C10: a passage without the "source" key makes get_summary_answer fail
\* with a lookup error before any generate call and without a Document;
\* otherwise exactly one generate call with max_tokens=1024 is issued.
C10_KeyErrorBeforeGenerate ==
    s_pc \in {"returned", "raised"} =>
        IF \E i \in 1..Len(s_passages) : "source" \notin DOMAIN s_passages[i].metadata
        THEN s_pc = "raised" /\ s_error = "KeyError" /\ s_calls = <<>> /\ s_doc = None
        ELSE Len(s_calls) = 1 /\ s_calls[1].max_tokens = 1024

\* the call failed on a list whose first passage has the key and whose
\* second one lacks it
C10_Witness ==
    /\ s_pc = "raised"
    /\ s_error = "KeyError"
    /\ Len(s_passages) = 2
    /\ "source" \in DOMAIN s_passages[1].metadata
    /\ "source" \notin DOMAIN s_passages[2].metadata

\* ------------------------------------------------------------------------
\* Properties of StreamingIfAllowed
\* ------------------------------------------------------------------------
Events(s, op) == { i \in 1..Len(trace) : trace[i].scope = s /\ trace[i].op = op }

EnterPos(s) == CHOOSE i \in Events(s, "enter") : TRUE

ExitPos(s) == CHOOSE i \in Events(s, "exit") : TRUE

\* no other scope called set_stream between the entry of s and its exit
\* (or now, while s is still open)
Undisturbed(s) ==
    LET last == IF Events(s, "exit") = {} THEN Len(trace) ELSE ExitPos(s)
    IN  \A i \in EnterPos(s)..last : trace[i].scope = s

\* C3: after an undisturbed scope exits, normally or because the block
\* raised, the stream flag equals the value it had right before entry.
C3_RestoredOnExit ==
    \A s \in Scopes :
        (scopes[s].pc = "exited" /\ Undisturbed(s)) =>
            trace[ExitPos(s)].after = trace[EnterPos(s)].before

\* an undisturbed scope that changed the flag has exited through an exception
C3_Witness ==
    \E s \in Scopes :
        /\ scopes[s].pc = "exited"
        /\ Undisturbed(s)
        /\ trace[ExitPos(s)].exc = "Exception"
        /\ trace[EnterPos(s)].after # trace[EnterPos(s)].before
        /\ llm_stream = trace[EnterPos(s)].before

\* C4: while an undisturbed scope is open, the stream flag equals
\* (settings.stream as read at entry) AND (the desired value).
C4_EffectiveWhileOpen ==
    \A s \in Scopes :
        (scopes[s].pc = "open" /\ Undisturbed(s)) =>
            llm_stream = (trace[EnterPos(s)].allowed /\ scopes[s].stream)

\* streaming was globally off at entry, desired and previously on: the flag
\* is off inside the scope, also after settings.stream was switched on
C4_Witness ==
    \E s \in Scopes :
        /\ scopes[s].pc = "open"
        /\ Undisturbed(s)
        /\ scopes[s].stream
        /\ ~trace[EnterPos(s)].allowed
        /\ trace[EnterPos(s)].before
        /\ settings_stream
        /\ ~llm_stream

BothExited == \A s \in Scopes : scopes[s].pc = "exited"

\* the scope entered first also exits first, after the second one entered
Overlapping ==
    /\ Len(trace) = 4
    /\ trace[2].op = "enter"
    /\ trace[3].scope = trace[1].scope

\* C9 as stated: once both scopes have exited, in whatever order, the flag
\* equals the value it had before the first entry.
C9_AnyInterleavingRestores ==
    BothExited => llm_stream = trace[1].before

\* C9 amended: once both scopes have exited the flag equals the value it
\* had before the first entry when the scopes were nested or one after the
\* other; when the first-entered scope exits first, the flag ends at the
\* value the first scope had set.
C9_NestedRestores ==
    BothExited =>
        llm_stream = IF Overlapping THEN trace[1].after ELSE trace[1].before

\* two overlapping scopes have exited and the first override is still visible
C9_Witness ==
    /\ BothExited
    /\ Overlapping
    /\ llm_stream # trace[1].before

\* ------------------------------------------------------------------------
\* Properties of get_verbatim_extracts
\* ------------------------------------------------------------------------
TaskStates(ss) == \A i \in 1..Len(tasks) : tasks[i].state \in ss

\* C1: when all N calls succeed, whatever their completion order, N
\* Documents are returned; the i-th has the trimmed reply of the call
\* issued for passage i as content and the metadata of passage i.
C1_OrderedExtracts ==
    (x_pc = "returned" /\ x_passages # <<>>) =>
        /\ Len(x_docs) = Len(x_passages)
        /\ \A i \in 1..Len(x_passages) :
            /\ tasks[i].prompt.content = x_passages[i].content
            /\ IsTrimOf(x_docs[i].content, tasks[i].raw)
            /\ x_docs[i].metadata = x_passages[i].metadata

\* three calls completed in the order 3, 1, 2 with differing replies and
\* the Documents have been returned
C1_Witness ==
    /\ x_pc = "returned"
    /\ Len(x_passages) = 3
    /\ outer.finished = <<3, 1, 2>>
    /\ x_docs[1].content # x_docs[3].content
    /\ x_passages[1].metadata # x_passages[3].metadata

\* C2: if one of the concurrent calls raises, get_verbatim_extracts does
\* not return: no Document is produced, and it ends by raising.
C2_FailureFailsBatch ==
    (\E i \in 1..Len(tasks) : tasks[i].state = "failed") =>
        /\ x_pc # "returned"
        /\ outer.state # "result"
        /\ x_docs = None
        /\ (ready = <<>> =>
                (x_pc = "raised" \/ (x_pc \in {"closing", "cancelling"} /\ outer.state = "exception")))

\* the operation has raised although an earlier call had succeeded
C2_Witness ==
    /\ x_pc = "raised"
    /\ x_docs = None
    /\ Len(tasks) = 3
    /\ tasks[1].state = "ok"
    /\ tasks[2].state = "failed"
    /\ outer.finished[1] = 1

Completed == x_pc \in {"returned", "raised"}

\* C7 as stated: all calls are launched before any is waited on, and the
\* operation completes only when every launched call has finished by
\* itself, none being cancelled.
C7_CompletesAfterAllFinish ==
    /\ x_pc \in {"awaiting", "stopping", "closing", "cancelling", "returned", "raised"} =>
        Len(tasks) = Len(x_passages)
    /\ Completed => TaskStates({"ok", "failed"})

\* C7 amended: all calls are launched before any is waited on; the
\* operation returns only when every call has finished; when a call fails
\* it raises without waiting for the others: the tasks that resumed before
\* the loop stopped have ended by themselves, and every task still pending
\* when asyncio.run shuts the loop down, also one whose call had already
\* answered, has ended cancelled, so that no call is left running once the
\* operation has completed.
C7_CompletesWithNoneRunning ==
    /\ x_pc \in {"awaiting", "stopping", "closing", "cancelling", "returned", "raised"} =>
        Len(tasks) = Len(x_passages)
    /\ x_pc = "returned" => TaskStates({"ok"})
    /\ x_pc = "raised" =>
        /\ TaskStates({"ok", "failed", "cancelled"})
        /\ \E i \in 1..Len(tasks) : tasks[i].state = "failed"
        /\ \A i \in 1..Len(tasks) :
            tasks[i].state = "cancelled" <=> tasks[i].cancel_requested

\* the operation has raised after two calls had answered with a reply: the
\* task of one had resumed and ended by itself, the task of the other had
\* not resumed when the loop stopped and ended cancelled
C7_Witness ==
    /\ x_pc = "raised"
    /\ \E i, k \in 1..Len(tasks) :
        /\ tasks[i].state = "cancelled"
        /\ tasks[i].answered
        /\ ~tasks[i].outcome.raises
        /\ tasks[k].state = "ok"

\* ------------------------------------------------------------------------
\* Properties of LanguageModel.create
\* ------------------------------------------------------------------------
\* C8: create never fails because of the provider tag: whatever config.type
\* is, it returns an instance of the one default implementation.
C8_CreateFallsBack ==
    c_pc \in {"returned", "raised"} =>
        /\ c_pc = "returned"
        /\ c_instance.cls = Registry["openai"]
        /\ c_instance.config = c_config

\* an instance was created for a tag that is not registered
C8_Witness ==
    /\ c_pc = "returned"
    /\ c_config.type = "azure"
    /\ c_instance.cls = "OpenAIGPT"

====
